---------------------------- MODULE Spec2Model ----------------------------
(***************************************************************************)
(* The section-oriented parser of .vchk files:                             *)
(* VCHKPlotter/file_handler.py (FileHandler, Section, StatsFileObject).    *)
(*                                                                         *)
(* A text line is a sequence of one-character strings.  The input file is  *)
(* read through one forward-only iterator shared by FileHandler.parse and  *)
(* Section.parse; the variable `file` holds the lines taken from it so     *)
(* far, in order, and `eof` says that the iterator is exhausted.           *)
(***************************************************************************)
EXTENDS Naturals, Sequences, FiniteSets, TLC

(***************************************************************************)
(* Bound of the model: the number of lines of the input file.              *)
(***************************************************************************)
MaxLines == 4

(***************************************************************************)
(* Characters.                                                             *)
(***************************************************************************)
TAB == "\t"

NL == "\n"

UpperCase == <<"A","B","C","D","E","F","G","H","I","J","K","L","M",
               "N","O","P","Q","R","S","T","U","V","W","X","Y","Z">>

LowerCase == <<"a","b","c","d","e","f","g","h","i","j","k","l","m",
               "n","o","p","q","r","s","t","u","v","w","x","y","z">>

Digits == {"0","1","2","3","4","5","6","7","8","9"}

Range(s) == {s[i] : i \in DOMAIN s}

\* Python's str.isspace() on the characters a line can hold here.
Whitespace == {" ", "\t", "\n", "\r"}

\* The regular expression class \w.
WordChars == Range(UpperCase) \cup Range(LowerCase) \cup Digits \cup {"_"}

\* str.lower() of one character.
LowerChar(c) ==
    IF c \in Range(UpperCase)
    THEN LowerCase[CHOOSE i \in DOMAIN UpperCase : UpperCase[i] = c]
    ELSE c

\* str.lower()
lower(s) == [i \in DOMAIN s |-> LowerChar(s[i])]

\* str.startswith(c) for a one-character prefix
startswith(s, c) == Len(s) >= 1 /\ s[1] = c

\* Number of leading characters of s that belong to class cls.
RECURSIVE Span(_, _)
Span(s, cls) ==
    IF s = <<>> \/ Head(s) \notin cls THEN 0 ELSE 1 + Span(Tail(s), cls)

\* s[n:] of Python (n >= 0).
Drop(s, n) == IF n >= Len(s) THEN <<>> ELSE SubSeq(s, n + 1, Len(s))

\* s[:n] of Python (n >= 0).
Take(s, n) == IF n >= Len(s) THEN s ELSE SubSeq(s, 1, n)

Reverse(s) == [i \in DOMAIN s |-> s[Len(s) + 1 - i]]

\* str.lstrip(), str.rstrip() and str.strip() with no argument.
lstrip(s) == Drop(s, Span(s, Whitespace))

rstrip(s) == Reverse(lstrip(Reverse(s)))

strip(s) == rstrip(lstrip(s))

\* str.replace("\n", "")
replace_newline(s) == SelectSeq(s, LAMBDA c : c # NL)

\* str.split(sep) for a one-character separator: always at least one field,
\* empty fields kept.
RECURSIVE split(_, _)
split(s, sep) ==
    LET n == Span(s, {c \in Range(s) : c # sep})
    IN  IF n = Len(s) THEN <<s>>
        ELSE <<Take(s, n)>> \o split(Drop(s, n + 1), sep)

\* The text of a character sequence as one string.
RECURSIVE Str(_)
Str(s) == IF s = <<>> THEN "" ELSE Head(s) \o Str(Tail(s))

(***************************************************************************)
(* FileHandler.SECTION_HEADER_PATTERN = re.compile(r"# (\w+)\t"), used     *)
(* with .match(line): anchored at the start of the line.                   *)
(***************************************************************************)
SECTION_HEADER_PATTERN(line) ==
    /\ Len(line) >= 2
    /\ line[1] = "#"
    /\ line[2] = " "
    /\ LET w == Span(Drop(line, 2), WordChars)
       IN  /\ w >= 1
           /\ Len(line) >= 3 + w
           /\ line[3 + w] = TAB

(***************************************************************************)
(* FileHandler.SECTION_HEADER_CONSTITUENT = re.compile(r"\[\d+\](.+)"),    *)
(* used with .match: whether it matches at the start of s, and the         *)
(* captured group 1.  "." matches any character but a newline.             *)
(***************************************************************************)
SECTION_HEADER_CONSTITUENT(s) ==
    LET d == Span(Drop(s, 1), Digits)
        rest == Drop(s, d + 2)
        g == Take(rest, Span(rest, Range(rest) \ {NL}))
    IN  IF /\ startswith(s, "[")
           /\ d >= 1
           /\ Len(s) >= d + 2
           /\ s[d + 2] = "]"
           /\ Len(g) >= 1
        THEN [matched |-> TRUE, group1 |-> g]
        ELSE [matched |-> FALSE, group1 |-> <<>>]

\* check_and_clean without the lower-casing of the name.
check_and_clean_keeps_case(line_to_clean) ==
    LET cleaned == replace_newline(strip(line_to_clean))
        groups == SECTION_HEADER_CONSTITUENT(cleaned)
    IN  IF ~groups.matched
        THEN [fatal |-> TRUE, cleaned_title |-> ""]
        ELSE [fatal |-> FALSE, cleaned_title |-> Str(groups.group1)]

(***************************************************************************)
(* FileHandler.check_and_clean: the cleaned column title; fatal when the   *)
(* field does not match (error("File not in correct format"), exit(1)).    *)
(***************************************************************************)
check_and_clean(line_to_clean) ==
    LET cleaned == replace_newline(strip(line_to_clean))
        groups == SECTION_HEADER_CONSTITUENT(cleaned)
    IN  IF ~groups.matched
        THEN [fatal |-> TRUE, cleaned_title |-> ""]
        ELSE [fatal |-> FALSE, cleaned_title |-> Str(lower(groups.group1))]

\* line.split("\t") of a header line
line_split(line) == split(line, TAB)

\* data_type_title = line_split[0][2:].lower()
data_type_title(line) == Str(lower(Drop(line_split(line)[1], 2)))

\* map(self.check_and_clean, line_split[1:])
cleaned_fields(line) ==
    LET fields == Tail(line_split(line))
    IN  [i \in DOMAIN fields |-> check_and_clean(fields[i])]

\* Whether list(map(...)) reaches a field for which check_and_clean exits.
header_is_fatal(line) ==
    \E i \in DOMAIN cleaned_fields(line) : cleaned_fields(line)[i].fatal

\* columns = list(map(self.check_and_clean, line_split[1:]))
columns_of(line) ==
    [i \in DOMAIN cleaned_fields(line) |-> cleaned_fields(line)[i].cleaned_title]

(***************************************************************************)
(* coerce_to_appropriate_dtype: ast.literal_eval(val), str(val) when it    *)
(* raises.  Exact for the fields the lines of FileLines hold: the empty    *)
(* field and fields of decimal digits ("01" is no Python literal).         *)
(***************************************************************************)
coerce_to_appropriate_dtype(val) ==
    IF /\ val # <<>>
       /\ Range(val) \subseteq Digits
       /\ (Head(val) # "0" \/ Range(val) = {"0"})
    THEN [type |-> "int", text |-> Str(val)]
    ELSE [type |-> "str", text |-> Str(val)]

(***************************************************************************)
(* The lines an input file is made of.                                     *)
(***************************************************************************)
\* "# SN\t[2]Key\n": the summary header, one column
HeaderSN == <<"#"," ","S","N","\t","[","2","]","K","e","y","\n">>

\* "# DP\t[2]id\t[3]N\n": a header with two columns
HeaderDP == <<"#"," ","D","P","\t","[","2","]","i","d","\t","[","3","]","N","\n">>

\* "# PSC\t [2] Id \n": a header with one column, whose field has blanks
\* around the bracket prefix and around the name
HeaderPSC == <<"#"," ","P","S","C","\t"," ","[","2","]"," ","I","d"," ","\n">>

\* "# DP\tid\n": matches the header pattern, its column has no [<digits>]
HeaderBad == <<"#"," ","D","P","\t","i","d","\n">>

\* "# DP, depth\n": a comment line that is no header
Comment == <<"#"," ","D","P",","," ","d","e","p","t","h","\n">>

\* "SN\t7\n": a body row of one value
Row1 == <<"S","N","\t","7","\n">>

\* "DP\t1\t20\n": a body row of two values
Row2 == <<"D","P","\t","1","\t","2","0","\n">>

\* "DP\t1\t\n": a body row of two values, the last one empty
RowTrail == <<"D","P","\t","1","\t","\n">>

\* "\t1\t20\n": a body row of two values with an empty label
RowLead == <<"\t","1","\t","2","0","\n">>

\* "\n": a blank line
Blank == <<"\n">>

FileLines ==
    {HeaderSN, HeaderDP, HeaderPSC, HeaderBad, Comment,
     Row1, Row2, RowTrail, RowLead, Blank}

\* next(file_line_iterator, None) at the end of the input; no line of a file
\* is empty.
None == <<>>

(***************************************************************************)
(* The collections of requested sections: CustomArgumentParser builds the  *)
(* list in the order of AVAILABLE_STANDALONE_ARGUMENTS, lower-cased, each  *)
(* code at most once.                                                      *)
(***************************************************************************)
AVAILABLE_STANDALONE_ARGUMENTS == <<"dp", "psc", "sn">>

Requested ==
    {SelectSeq(AVAILABLE_STANDALONE_ARGUMENTS, LAMBDA a : a \in chosen) :
        chosen \in SUBSET Range(AVAILABLE_STANDALONE_ARGUMENTS)}

\* What open(self._in_file, "r") can do.
OpenOutcomes == {"ok", "FileNotFoundError", "PermissionError", "IsADirectoryError"}

VARIABLES
    pc,          \* where FileHandler.parse is: "start", "scan" (its for loop),
                 \* "section" (inside Section.parse), "returned" (it returned
                 \* stats_file_object), "exited" (SystemExit(1) from sys.exit(1)
                 \* or exit(1)), "raised" (an exception left parse uncaught)
    file,        \* the lines taken from the iterator stats_file so far
    eof,         \* the iterator is exhausted
    taken_by,    \* for each line of file, the loop whose next() took it
    actions,     \* self._actions
    requested,   \* self._actions as the caller passed it
    sections,    \* stats_file_object._sections
    section,     \* <<the Section being parsed>>, or <<>>
    diagnostics, \* the messages given to error(), in order
    exc,         \* the exception that left parse uncaught, or ""
    opened       \* what open() did: a member of OpenOutcomes, "" before it

vars == <<pc, file, eof, taken_by, actions, requested, sections, section,
          diagnostics, exc, opened>>

Init ==
    /\ pc = "start"
    /\ file = <<>>
    /\ eof = FALSE
    /\ taken_by = <<>>
    /\ actions \in Requested
    /\ requested = actions
    /\ sections = <<>>
    /\ section = <<>>
    /\ diagnostics = <<>>
    /\ exc = ""
    /\ opened = ""

\* What next() on the iterator can yield in this state.
NextLines ==
    IF eof \/ Len(file) >= MaxLines THEN {None} ELSE FileLines \cup {None}

\* An iterator that Section.parse reads without advancing it.
Advance_only_by_scan(line, who) ==
    /\ file' = IF line = None \/ who = "Section.parse" THEN file
               ELSE Append(file, line)
    /\ eof' = (eof \/ line = None)
    /\ taken_by' = IF line = None \/ who = "Section.parse" THEN taken_by
                   ELSE Append(taken_by, who)

\* The iterator after next() yielded `line` to the loop `who`.
Advance(line, who) ==
    /\ file' = IF line = None THEN file ELSE Append(file, line)
    /\ eof' = (eof \/ line = None)
    /\ taken_by' = IF line = None THEN taken_by ELSE Append(taken_by, who)

\* A handler that catches every failure of open() (except OSError).
caught_any_OSError(e) ==
    e \in {"FileNotFoundError", "PermissionError", "IsADirectoryError"}

\* except FileNotFoundError
caught(e) == e = "FileNotFoundError"

(***************************************************************************)
(* FileHandler.parse, opening the file.                                    *)
(***************************************************************************)
open_file ==
    /\ pc = "start"
    /\ \E outcome \in OpenOutcomes :
          /\ opened' = outcome
          /\ IF outcome = "ok"
             THEN /\ pc' = "scan"
                  /\ UNCHANGED <<diagnostics, exc>>
             ELSE IF caught(outcome)
             THEN /\ diagnostics' = Append(diagnostics, "No such file")
                  /\ pc' = "exited"
                  /\ UNCHANGED exc
             ELSE /\ exc' = outcome
                  /\ pc' = "raised"
                  /\ UNCHANGED diagnostics
    /\ UNCHANGED <<file, eof, taken_by, actions, requested, sections, section>>

\* A filter that lets every section through.
is_wanted_unfiltered(title, acts) == TRUE

\* data_type_title in self._actions or data_type_title == "sn"
is_wanted(title, acts) == title \in Range(acts) \/ title = "sn"

\* Section.__init__; `start` records which line of the file the header is.
Section(title, columns, header, start) ==
    [title |-> title, columns |-> columns, rows |-> <<>>,
     text_rows |-> <<header>>, data_frame |-> <<>>, start |-> start]

(***************************************************************************)
(* FileHandler.parse, one turn of `for line in stats_file`, up to the call *)
(* of section.parse; the return when the iterator is exhausted.            *)
(***************************************************************************)
parse_scan ==
    /\ pc = "scan"
    /\ \E line \in NextLines :
          /\ Advance(line, "FileHandler.parse")
          /\ IF line = None
             THEN /\ pc' = "returned"
                  /\ UNCHANGED <<section, diagnostics>>
             ELSE IF ~SECTION_HEADER_PATTERN(line)
             THEN UNCHANGED <<pc, section, diagnostics>>
             ELSE IF header_is_fatal(line)
             THEN /\ diagnostics' = Append(diagnostics, "File not in correct format")
                  /\ pc' = "exited"
                  /\ UNCHANGED section
             ELSE IF is_wanted(data_type_title(line), actions)
             THEN /\ section' = <<Section(data_type_title(line), columns_of(line),
                                          line, Len(file) + 1)>>
                  /\ pc' = "section"
                  /\ UNCHANGED diagnostics
             ELSE UNCHANGED <<pc, section, diagnostics>>
    /\ UNCHANGED <<actions, requested, sections, exc, opened>>

\* row.split("\t")[1:]
split_on_delimiter(row) == Tail(split(row, TAB))

\* A check that only rejects rows with too many values.
shape_ok_short_rows(fields, columns) == Len(fields) <= Len(columns)

\* the negation of len(split_on_delimiter) != len(self._columns)
shape_ok(fields, columns) == Len(fields) = Len(columns)

\* next_line.strip().replace("\n", "")
cleaned_row(next_line) == replace_newline(strip(next_line))

\* Keeping the cleaned line in place of the raw one.
append_text_cleaned(text_rows, next_line) ==
    Append(text_rows, cleaned_row(next_line))

\* self._text_rows.append(next_line)
append_text(text_rows, next_line) == Append(text_rows, next_line)

\* A loop condition that also takes a blank line for the end of a section.
ends_section_at_blank(next_line) ==
    next_line = None \/ startswith(next_line, "#") \/ strip(next_line) = <<>>

\* the negation of: next_line is not None and not next_line.startswith("#")
ends_section(next_line) == next_line = None \/ startswith(next_line, "#")

\* Section.accept_row past its check
accept_row(sec, fields) ==
    [sec EXCEPT !.rows =
        Append(@, [i \in DOMAIN fields |-> coerce_to_appropriate_dtype(fields[i])])]

\* pd.DataFrame(columns=self._columns, data=self._rows, dtype=None)
DataFrame(columns, data) == [columns |-> columns, data |-> data]

\* StatsFileObject.add_section
add_section(secs, name, sec) ==
    [k \in DOMAIN secs \cup {name} |-> IF k = name THEN sec ELSE secs[k]]

\* Removing the head of the list whatever x is.
remove_head(list, x) == IF list = <<>> THEN <<>> ELSE Tail(list)

\* list.remove(x): the first occurrence of x goes
RECURSIVE remove(_, _)
remove(list, x) ==
    IF list = <<>> THEN <<>>
    ELSE IF Head(list) = x THEN Tail(list)
    ELSE <<Head(list)>> \o remove(Tail(list), x)

(***************************************************************************)
(* Section.parse, one next() of it and what follows: at the end of the     *)
(* section the data frame, the return and add_section in FileHandler.parse;*)
(* for a row, accept_row, and when it raises IOError the handler of        *)
(* FileHandler.parse (list.remove raises ValueError for a missing item).   *)
(***************************************************************************)
Section_parse ==
    /\ pc = "section"
    /\ \E next_line \in NextLines :
          /\ Advance(next_line, "Section.parse")
          /\ LET sec == section[1]
                 kept == [sec EXCEPT !.text_rows = append_text(@, next_line)]
                 fields == split_on_delimiter(cleaned_row(next_line))
             IN  IF ends_section(next_line)
                 THEN /\ sections' = add_section(sections, sec.title,
                             [sec EXCEPT !.data_frame =
                                 <<DataFrame(sec.columns, sec.rows)>>])
                      /\ section' = <<>>
                      /\ pc' = "scan"
                      /\ UNCHANGED <<actions, diagnostics, exc>>
                 ELSE IF shape_ok(fields, sec.columns)
                 THEN /\ section' = <<accept_row(kept, fields)>>
                      /\ UNCHANGED <<pc, sections, actions, diagnostics, exc>>
                 ELSE IF sec.title \in Range(actions)
                 THEN /\ actions' = remove(actions, sec.title)
                      /\ diagnostics' = Append(diagnostics,
                             "Could not parse section " \o sec.title \o " properly")
                      /\ section' = <<>>
                      /\ pc' = "scan"
                      /\ UNCHANGED <<sections, exc>>
                 ELSE /\ exc' = "ValueError"
                      /\ section' = <<>>
                      /\ pc' = "raised"
                      /\ UNCHANGED <<sections, actions, diagnostics>>
    /\ UNCHANGED <<requested, opened>>

Next == open_file \/ parse_scan \/ Section_parse

Spec == Init /\ [][Next]_vars

(***************************************************************************)
(* The input file as the claims speak of it.                               *)
(***************************************************************************)
\* The lines of the file that match the header pattern.
HeaderLines == {i \in DOMAIN file : SECTION_HEADER_PATTERN(file[i])}

\* Every header of the file has well-formed column fields.
WellFormedHeaders == \A h \in HeaderLines : ~header_is_fatal(file[h])

\* The body rows of the section whose header is line h: the lines after h
\* up to the next line that starts with "#".
BodyRows(h) ==
    {j \in DOMAIN file :
        /\ j > h
        /\ \A m \in (h + 1)..j : ~startswith(file[m], "#")}

\* Line j is a row of the section of header h whose field count differs
\* from the declared column count.
RowShapeViolation(h, j) ==
    /\ j \in BodyRows(h)
    /\ Len(split_on_delimiter(cleaned_row(file[j]))) # Len(columns_of(file[h]))

\* The section codes.
Codes == Range(AVAILABLE_STANDALONE_ARGUMENTS) \cup {"sn"}

\* The codes for which the handler of FileHandler.parse reported a
\* row-shape violation.
Reported ==
    {c \in Codes :
        ("Could not parse section " \o c \o " properly") \in Range(diagnostics)}

(***************************************************************************)
(* C1: cursor hand-off.  Every line taken from the iterator that starts    *)
(* with "#" (the line that ends a section whose parse returns normally is  *)
(* such a line) is examined for a header match by the loop of              *)
(* FileHandler.parse; in particular a header that directly follows the     *)
(* last body row of a parsed section is examined.                          *)
(***************************************************************************)
C1_CursorHandOff ==
    \A i \in DOMAIN file :
        startswith(file[i], "#") => taken_by[i] = "FileHandler.parse"

(***************************************************************************)
(* C2: when parse returns for a file with well-formed headers, the keys of *)
(* the result are the codes that have a header in the file, are requested  *)
(* or "sn", and have no body row of a wrong field count.                   *)
(***************************************************************************)
C2_ResultKeys ==
    (pc = "returned" /\ WellFormedHeaders) =>
        DOMAIN sections =
            {c \in Range(requested) \cup {"sn"} :
                /\ \E h \in HeaderLines : data_type_title(file[h]) = c
                /\ \A h \in HeaderLines : data_type_title(file[h]) = c =>
                       \A j \in BodyRows(h) : ~RowShapeViolation(h, j)}

(***************************************************************************)
(* C3: a body row of a wrong field count in a section being parsed does    *)
(* not abort parse: the step that takes the row emits a diagnostic and     *)
(* goes back to scanning.                                                  *)
(***************************************************************************)
C3_RowShapeIsNotFatal ==
    [][(/\ pc = "section"
        /\ Len(file') = Len(file) + 1
        /\ ~ends_section(file'[Len(file')])
        /\ ~shape_ok(split_on_delimiter(cleaned_row(file'[Len(file')])),
                     section[1].columns))
       => (/\ pc' = "scan"
           /\ Len(diagnostics') = Len(diagnostics) + 1)]_vars

(***************************************************************************)
(* C4: when parse returns, no code with a reported row-shape violation is  *)
(* a key of the result or a member of the requested collection, and the    *)
(* requested collection is its initial content minus those codes.          *)
(***************************************************************************)
C4_ViolatorsDropped ==
    pc = "returned" =>
        /\ Reported \cap DOMAIN sections = {}
        /\ Reported \cap Range(actions) = {}
        /\ actions = SelectSeq(requested, LAMBDA c : c \notin Reported)

(***************************************************************************)
(* C5: when parse returns for a file that holds a summary header           *)
(* "# SN\t..." at any position, the result has the key "sn".               *)
(***************************************************************************)
C5_SummaryAlwaysPresent ==
    (pc = "returned" /\ \E h \in HeaderLines : data_type_title(file[h]) = "sn")
        => "sn" \in DOMAIN sections

\* Every row of Section sec has as many values as sec has columns.
RowsMatchColumns(sec) ==
    \A r \in DOMAIN sec.rows : Len(sec.rows[r]) = Len(sec.columns)

(***************************************************************************)
(* C6: in every state of a parse, every row stored in a Section, the one   *)
(* being parsed or one registered in the result (its data frame included), *)
(* has exactly len(columns) values.                                        *)
(***************************************************************************)
C6_RowsHaveColumnCount ==
    /\ section # <<>> => RowsMatchColumns(section[1])
    /\ \A k \in DOMAIN sections :
          /\ RowsMatchColumns(sections[k])
          /\ sections[k].data_frame[1].data = sections[k].rows
          /\ sections[k].data_frame[1].columns = sections[k].columns

\* A section of two columns is registered with a row, after a row of a
\* wrong field count was refused in another section.
C6_Witness ==
    /\ Reported # {}
    /\ \E k \in DOMAIN sections :
          /\ Len(sections[k].columns) = 2
          /\ sections[k].rows # <<>>

(***************************************************************************)
(* C7: at every point of the scan and in the result, each key of the       *)
(* StatsFileObject, and the code of the Section being parsed, is "sn" or a *)
(* code of the collection the caller passed in.                            *)
(***************************************************************************)
C7_OnlyRequestedOrSummary ==
    /\ DOMAIN sections \subseteq Range(requested) \cup {"sn"}
    /\ section # <<>> => section[1].title \in Range(requested) \cup {"sn"}

\* parse returned a result with a section, having examined the well-formed
\* header of a code that is neither requested nor "sn".
C7_Witness ==
    /\ pc = "returned"
    /\ DOMAIN sections # {}
    /\ \E h \in HeaderLines :
          /\ taken_by[h] = "FileHandler.parse"
          /\ ~header_is_fatal(file[h])
          /\ data_type_title(file[h]) \notin Range(requested) \cup {"sn"}

(***************************************************************************)
(* C8: once a line that matches the header pattern and has a malformed     *)
(* column field has been taken from the file, parse has exited with the    *)
(* diagnostic "File not in correct format" (and returns no result).        *)
(***************************************************************************)
C8_MalformedHeaderIsFatal ==
    (\E h \in HeaderLines : header_is_fatal(file[h])) =>
        /\ pc = "exited"
        /\ diagnostics # <<>>
        /\ diagnostics[Len(diagnostics)] = "File not in correct format"

(***************************************************************************)
(* C9: if the input path cannot be opened, whatever the reason, parse      *)
(* reports a diagnostic through error() and exits.                         *)
(***************************************************************************)
C9_OpenFailureExits ==
    opened \notin {"", "ok"} => (pc = "exited" /\ diagnostics # <<>>)

(***************************************************************************)
(* C9 as amended: if open() raises FileNotFoundError, parse reports        *)
(* "No such file" through error() and exits with status 1; if it raises    *)
(* PermissionError or IsADirectoryError the exception leaves parse         *)
(* uncaught and error() is not called; in neither case is a                *)
(* StatsFileObject returned or a line read.                                *)
(***************************************************************************)
C9_OpenFailure ==
    /\ opened = "FileNotFoundError" =>
          (pc = "exited" /\ diagnostics = <<"No such file">> /\ exc = "")
    /\ opened \in {"PermissionError", "IsADirectoryError"} =>
          (pc = "raised" /\ exc = opened /\ diagnostics = <<>>)
    /\ opened \notin {"", "ok"} => (sections = <<>> /\ file = <<>>)

\* open() failed for want of permission.
C9_Witness == opened = "PermissionError" /\ pc = "raised"

\* Section.get_text
get_text(sec) == sec.text_rows

(***************************************************************************)
(* C10: for every section registered in the result, get_text() is the      *)
(* header line of the section followed by exactly its body lines, as they  *)
(* are in the file and in file order: it is the span of the file from the  *)
(* header up to, and without, the next line that starts with "#" (or up to *)
(* the end of the file).                                                   *)
(***************************************************************************)
C10_TextIsSectionSpan ==
    \A k \in DOMAIN sections :
        LET sec == sections[k]
            last == sec.start + Len(get_text(sec)) - 1
        IN  /\ sec.start \in HeaderLines
            /\ data_type_title(file[sec.start]) = k
            /\ last <= Len(file)
            /\ get_text(sec) = SubSeq(file, sec.start, last)
            /\ \A j \in (sec.start + 1)..last : ~startswith(file[j], "#")
            /\ IF last = Len(file) THEN eof ELSE startswith(file[last + 1], "#")

\* A registered section with body lines that lines of the file follow.
C10_Witness ==
    \E k \in DOMAIN sections :
        /\ Len(get_text(sections[k])) >= 2
        /\ sections[k].start + Len(get_text(sections[k])) < Len(file)

\* For each line a file can hold: the code it is a header of, "" when it
\* does not match the header pattern.
CodeOfLine ==
    [l \in FileLines |->
        IF SECTION_HEADER_PATTERN(l) THEN data_type_title(l) ELSE ""]

\* The codes that have a header among the lines taken from the file.
HeaderCodes == {CodeOfLine[file[i]] : i \in DOMAIN file} \ {""}

\* Code c has a header among the lines taken from the file.
HasHeader(c) == c \in HeaderCodes

(***************************************************************************)
(* C11: a requested code that has no header in the file is never reported, *)
(* is not a key of the result and stays in the requested collection, and   *)
(* an exception leaves the scan only for a file with a summary header; for *)
(* an empty file parse returns a result with no sections, with no          *)
(* diagnostic and without ending the process.                              *)
(***************************************************************************)
C11_AbsentSectionIsNoError ==
    /\ \A c \in Range(requested) :
          ~HasHeader(c) =>
              /\ c \notin Reported
              /\ c \notin DOMAIN sections
              /\ c \in Range(actions)
    /\ (pc = "raised" /\ opened = "ok") => HasHeader("sn")
    /\ (opened = "ok" /\ eof /\ file = <<>>) =>
          /\ pc = "returned"
          /\ sections = <<>>
          /\ diagnostics = <<>>
          /\ exc = ""

\* parse returned a result with a section for a file that has no header of
\* one of the requested codes, after a section was dropped.
C11_Witness ==
    /\ pc = "returned"
    /\ DOMAIN sections # {}
    /\ Reported # {}
    /\ \E c \in Range(requested) : ~HasHeader(c)

\* The Sections there are: the one being parsed and the registered ones.
AllSections == Range(section) \cup {sections[k] : k \in DOMAIN sections}

\* For each line a file can hold, its tab-separated fields after the first.
FieldsOfLine == [l \in FileLines |-> Tail(split(l, TAB))]

\* The tab-separated fields of the header of Section sec after its code.
HeaderFields(sec) == FieldsOfLine[file[sec.start]]

\* What follows the first "]" of s.
AfterBracket(s) == Drop(s, Span(s, Range(s) \ {"]"}) + 1)

\* For each line a file can hold, per field after the first: the field with
\* its bracket prefix removed, trimmed and lower-cased.
TrimmedNames ==
    [l \in FileLines |->
        [i \in DOMAIN FieldsOfLine[l] |->
            Str(lower(strip(AfterBracket(strip(FieldsOfLine[l][i])))))]]

\* For each line a file can hold, per field after the first: the trimmed
\* field with its bracket prefix removed, lower-cased.
Names ==
    [l \in FileLines |->
        [i \in DOMAIN FieldsOfLine[l] |->
            Str(lower(AfterBracket(strip(FieldsOfLine[l][i]))))]]

MalformedLine ==
    [l \in FileLines |-> SECTION_HEADER_PATTERN(l) /\ header_is_fatal(l)]

\* The lines taken from the file that match the header pattern.
Headers == {i \in DOMAIN file : CodeOfLine[file[i]] # ""}

\* A Section was constructed for line n: it is being parsed, or it is
\* registered, or Section.parse took the line after n.
Constructed(n) ==
    \/ \E sec \in AllSections : sec.start = n
    \/ n < Len(file) /\ taken_by[n + 1] = "Section.parse"

\* The first header after line h, 0 when there is none.
NextHeader(h) ==
    IF \E n \in Headers : n > h
    THEN CHOOSE n \in Headers : n > h /\ \A m \in Headers : m > h => n <= m
    ELSE 0

(***************************************************************************)
(* C13: for a header h whose code is neither requested nor "sn", no        *)
(* Section is constructed; every line after h up to the next line that     *)
(* matches the header pattern is taken by the loop of FileHandler.parse    *)
(* and no Section is constructed for it; that next header is examined by   *)
(* FileHandler.parse, which exits if it is malformed and otherwise         *)
(* constructs a Section for it if its code is "sn" or requested.           *)
(***************************************************************************)
C13_SkippedSection ==
    \A h \in Headers :
        CodeOfLine[file[h]] \notin Range(requested) \cup {"sn"} =>
            LET n == NextHeader(h)
                last == IF n = 0 THEN Len(file) ELSE n
            IN  /\ ~Constructed(h)
                /\ \A j \in (h + 1)..last : taken_by[j] = "FileHandler.parse"
                /\ \A j \in (h + 1)..(last - 1) : ~Constructed(j)
                /\ n # 0 =>
                      IF MalformedLine[file[n]]
                      THEN pc = "exited" /\ ~Constructed(n)
                      ELSE (CodeOfLine[file[n]] \in Range(actions) \cup {"sn"})
                               => Constructed(n)

\* A header that is neither requested nor "sn" was skipped by the loop of
\* FileHandler.parse, a body line follows it, and the header after that
\* one has its section registered with a row.
C13_Witness ==
    \E h \in Headers :
        /\ CodeOfLine[file[h]] \notin Range(requested) \cup {"sn"}
        /\ taken_by[h] = "FileHandler.parse"
        /\ NextHeader(h) = h + 2
        /\ \E k \in DOMAIN sections :
              /\ sections[k].start = h + 2
              /\ sections[k].rows # <<>>

\* The header under which Section.parse took line j: the last line before j
\* that the loop of FileHandler.parse took.
HeaderOf(j) ==
    CHOOSE h \in 1..(j - 1) :
        /\ taken_by[h] = "FileHandler.parse"
        /\ \A m \in (h + 1)..(j - 1) : taken_by[m] = "Section.parse"

\* For each line a file can hold, the number of values accept_row finds.
ValuesOfLine ==
    [l \in FileLines |-> Len(split_on_delimiter(cleaned_row(l)))]

\* Line j, taken by Section.parse, is the last line its call took so far.
LastOfCall(j) == j = Len(file) \/ taken_by[j + 1] = "FileHandler.parse"

(***************************************************************************)
(* C14: Section.parse ends its loop exactly at the first line after the    *)
(* header that starts with "#", or at the end of the input.  Of the lines  *)
(* a call of Section.parse took, every one before the last neither starts  *)
(* with "#" nor has a wrong field count (accept_row kept it, whatever its  *)
(* content); the last one either starts with "#" (the section is over and  *)
(* registered), or accept_row refused it (a row-shape violation: the       *)
(* section is dropped), or accept_row kept it and the call goes on.  A     *)
(* blank line is never the end of a section: it is refused as a row.       *)
(***************************************************************************)
C14_SectionEndsAtComment ==
    /\ \A j \in DOMAIN file :
          taken_by[j] = "Section.parse" =>
              LET h == HeaderOf(j)
                  ncols == Len(FieldsOfLine[file[h]])
                  code == CodeOfLine[file[h]]
                  inside == /\ ~startswith(file[j], "#")
                            /\ ValuesOfLine[file[j]] = ncols
              IN  IF ~LastOfCall(j) THEN inside
                  ELSE IF startswith(file[j], "#")
                  THEN /\ j = Len(file) => pc \in {"scan", "returned"}
                       /\ code \in DOMAIN sections
                       /\ sections[code].start >= h
                  ELSE IF ValuesOfLine[file[j]] # ncols
                  THEN /\ j = Len(file) => pc \in {"scan", "returned", "raised"}
                       /\ \A sec \in AllSections : sec.start # h
                       /\ code \in Reported \/ exc = "ValueError"
                  ELSE \/ /\ pc = "section"
                          /\ section[1].start = h
                          /\ Len(section[1].rows) = j - h
                       \/ /\ pc \in {"scan", "returned"}
                          /\ eof
                          /\ code \in DOMAIN sections
                          /\ sections[code].start = h
                          /\ Len(sections[code].rows) = j - h
    /\ \A j \in DOMAIN file :
          (file[j] = Blank /\ taken_by[j] = "Section.parse") =>
              /\ LastOfCall(j)
              /\ \A sec \in AllSections : ~(sec.start < j /\ j < sec.start + Len(sec.text_rows))

\* A section is registered with a row kept whatever its label, after a
\* comment line ended it.
C14_Witness ==
    /\ \E j \in DOMAIN file :
          /\ file[j] = Comment
          /\ taken_by[j] = "Section.parse"
          /\ \E k \in DOMAIN sections :
                /\ sections[k].start = j - 2
                /\ Len(sections[k].rows) = 1
                /\ CodeOfLine[file[j - 2]] = "sn"
                /\ file[j - 1] = RowTrail

\* For each line a file can hold: the number of fields after the first once
\* only trailing whitespace and the line terminator are removed and the line
\* is split on tabs.
ValuesAfterLabel ==
    [l \in FileLines |-> Len(Tail(split(replace_newline(rstrip(l)), TAB)))]

(***************************************************************************)
(* C15: a data row is accepted exactly when, after removing only trailing  *)
(* whitespace and the line terminator and splitting on tabs, the number of *)
(* fields after the first equals len(columns); the leading characters of   *)
(* the line are not altered, so an empty label still is the first field.   *)
(* Stated of the step of Section.parse that takes a data row: the Section  *)
(* goes on with one more row if and only if that count is len(columns).    *)
(***************************************************************************)
C15_RowAcceptance ==
    [][(/\ pc = "section"
        /\ Len(file') = Len(file) + 1
        /\ ~startswith(file'[Len(file')], "#"))
       => ((/\ pc' = "section"
            /\ Len(section'[1].rows) = Len(section[1].rows) + 1)
           <=> ValuesAfterLabel[file'[Len(file')]] = Len(section[1].columns))]_vars

\* parse is over: it returned, exited, or an exception left it.
Final == pc \in {"returned", "exited", "raised"}

\* The program runs on until parse is over: no step waits for anything.
FairSpec == Spec /\ WF_vars(Next)

\* A step takes at most one line, from the front of what is left of the
\* file; the lines taken before stay taken, each by the loop that took it;
\* the loop that takes a line is the one that holds the iterator; nothing
\* is taken once the iterator is exhausted.
Forward ==
    /\ Len(file') \in {Len(file), Len(file) + 1}
    /\ SubSeq(file', 1, Len(file)) = file
    /\ Len(taken_by') = Len(file')
    /\ SubSeq(taken_by', 1, Len(taken_by)) = taken_by
    /\ Len(file') > Len(file) =>
          /\ ~eof
          /\ taken_by'[Len(file')] =
                 IF pc = "section" THEN "Section.parse" ELSE "FileHandler.parse"
          /\ pc \in {"scan", "section"}
    /\ eof => eof'

\* A step takes a line, or finds the end of the input, or moves parse on.
Progress == Len(file') > Len(file) \/ (eof' /\ ~eof) \/ pc' # pc

(***************************************************************************)
(* C16: parse ends for every finite input file, by returning a result or   *)
(* by a fatal exit; the cursor only moves forward; every line of the file  *)
(* is taken at most once, by the loop of FileHandler.parse or by the       *)
(* Section that holds the cursor, never by both.                           *)
(***************************************************************************)
C16_LinearPass == [][Forward /\ Progress]_vars /\ <>Final

\* parse returned after both loops took lines of the file.
C16_Witness ==
    /\ pc = "returned"
    /\ Len(file) = MaxLines
    /\ \E i \in DOMAIN file : taken_by[i] = "Section.parse"
    /\ \E i \in DOMAIN file : i > 1 /\ taken_by[i] = "FileHandler.parse"

=============================================================================
